---- MODULE Spec2Model ----
(***************************************************************************)
(* The galaxy component of src/src/App.vue: the parameter object, the     *)
(* module handles geometry / material / points / scene, generateGalaxy,    *)
(* and the component's mount, animation frame, panel and unmount handlers. *)
(*                                                                         *)
(* Numbers.  JavaScript numbers are modelled in fixed point: the integer n *)
(* stands for n / Scale.  Every panel step of the source (0.001, 0.01, 1,  *)
(* 100) is a whole number of units, so every parameter value is exact.     *)
(* Products and quotients are truncated to the unit; anything below one    *)
(* unit (the 1e-16 of Math.sin(Math.PI), the rounding of a Float32Array    *)
(* store) is below the model's resolution.  NaN is a value of its own and  *)
(* propagates through every operation, as in IEEE arithmetic.              *)
(***************************************************************************)
EXTENDS Integers, Sequences, FiniteSets, TLC

(***************************************************************************)
(* State.                                                                  *)
(***************************************************************************)
VARIABLES
    parameters,        \* the parameter object, mutated in place by the panel
    scene,             \* the scene handle: Null before mount
    children,          \* the objects in the scene graph
    geometry,          \* the geometry handle (an index of geoms, or Null)
    material,          \* the material handle (an index of mats, or Null)
    points,            \* the points handle (an index of pts, or Null)
    geoms,             \* every BufferGeometry created so far
    mats,              \* every PointsMaterial created so far
    pts,               \* every Points object created so far
    pc,                \* the statement generateGalaxy / onMounted is at
    caller,            \* who called the running generateGalaxy
    positions,         \* local of generateGalaxy
    colors,            \* local of generateGalaxy
    rng,               \* the random sequence the running call sees
    draws,             \* Math.random() calls made by the running call
    radii,             \* the local radius of each iteration so far
    angles,            \* the local branchAngle of each iteration so far
    result,            \* how the last call ended
    phase,             \* the component's life cycle
    gui,               \* the panel exists and has not been destroyed
    rafPending,        \* an animation frame has been requested
    rendererDisposed,  \* renderer.dispose() has run
    editing,           \* the controller with an open edit session
    calls,             \* generateGalaxy calls so far
    before,            \* history: the scene state when the last call started
    lastGen,           \* history: the last generation that was published
    edits,             \* panel changes so far
    ticks              \* animation frames so far

(***************************************************************************)
(* Bounds of the exploration.                                              *)
(***************************************************************************)
\* The arrays of a generation are tracked for their first MaxParticles
\* particles: a longer array keeps its length, the elements past the tracked
\* part and the loop iterations that write them are not explored.  The
\* direct-call specification passes counts up to MaxParticles, so that every
\* array it generates is tracked whole.
MaxParticles == 4
\* largest branch number the direct-call specification passes
MaxDriverBranches == 2
\* number of generateGalaxy calls the component makes per behaviour
MaxCalls == 2
\* number of generateGalaxy calls the direct caller makes per behaviour
MaxDriverCalls == 2
\* number of panel changes explored per behaviour
MaxEdits == 1
\* number of animation frames explored per behaviour
MaxTicks == 1

(***************************************************************************)
(* Representation of numbers.                                              *)
(***************************************************************************)
Scale == 1000
NaN == -1000000000
Null == 0

\* Math.PI, and the quarter and full turn derived from it
PI == 3142
HalfPI == PI \div 2
TwoPI == PI * 2

\* division truncating toward zero (the part of a quotient the unit keeps)
TDiv(a, b) ==
    IF b = 0 THEN NaN
    ELSE LET n == IF a < 0 THEN -a ELSE a
             d == IF b < 0 THEN -b ELSE b
             q == n \div d
         IN IF (a < 0) = (b < 0) THEN q ELSE -q

FAdd(a, b) == IF a = NaN \/ b = NaN THEN NaN ELSE a + b
FSub(a, b) == IF a = NaN \/ b = NaN THEN NaN ELSE a - b
FMul(a, b) == IF a = NaN \/ b = NaN THEN NaN ELSE TDiv(a * b, Scale)
\* a / b.  Both divisions of the source have a numerator that is 0 or NaN
\* whenever the divisor is 0 (0 / 0 and NaN / 0), so the result is NaN there.
FDiv(a, b) == IF a = NaN \/ b = NaN \/ b = 0 THEN NaN ELSE TDiv(a * Scale, b)
\* a % b on numbers: NaN for b = 0, otherwise the sign of the dividend
FMod(a, b) ==
    IF a = NaN \/ b = NaN \/ b = 0 THEN NaN
    ELSE LET d == IF b < 0 THEN -b ELSE b
         IN IF a >= 0 THEN a % d ELSE -((-a) % d)

\* cosine and sine on the first quarter turn, by their series
CosQ(x) ==
    LET x2 == (x * x) \div Scale
        x4 == (x2 * x2) \div Scale
        x6 == (x4 * x2) \div Scale
        x8 == (x6 * x2) \div Scale
    IN Scale - (x2 \div 2) + (x4 \div 24) - (x6 \div 720) + (x8 \div 40320)

SinQ(x) ==
    LET x2 == (x * x) \div Scale
        x3 == (x2 * x) \div Scale
        x5 == (x3 * x2) \div Scale
        x7 == (x5 * x2) \div Scale
    IN x - (x3 \div 6) + (x5 \div 120) - (x7 \div 5040)

\* Math.cos and Math.sin: reduction to the first quarter turn
Cos(a) ==
    IF a = NaN THEN NaN
    ELSE LET r == a % TwoPI
         IN IF r <= HalfPI THEN CosQ(r)
            ELSE IF r <= PI THEN -CosQ(PI - r)
            ELSE IF r <= PI + HalfPI THEN -CosQ(r - PI)
            ELSE CosQ(TwoPI - r)

Sin(a) ==
    IF a = NaN THEN NaN
    ELSE LET r == a % TwoPI
         IN IF r <= HalfPI THEN SinQ(r)
            ELSE IF r <= PI THEN SinQ(PI - r)
            ELSE IF r <= PI + HalfPI THEN -SinQ(r - PI)
            ELSE -SinQ(TwoPI - r)

(***************************************************************************)
(* Colours.  new THREE.Color(hex) splits the 24-bit value into its three   *)
(* bytes and normalises each to [0, 1].                                    *)
(***************************************************************************)
Channel(byte) == (byte * Scale) \div 255

Color(hex) ==
    [r |-> Channel((hex \div 65536) % 256),
     g |-> Channel((hex \div 256) % 256),
     b |-> Channel(hex % 256)]

\* Color.lerp(color, alpha): this.c += (color.c - this.c) * alpha
LerpChannel(a, b, alpha) == FAdd(a, FMul(FSub(b, a), alpha))

lerp(c, color, alpha) ==
    [r |-> LerpChannel(c.r, color.r, alpha),
     g |-> LerpChannel(c.g, color.g, alpha),
     b |-> LerpChannel(c.b, color.b, alpha)]

(***************************************************************************)
(* The parameter object and its panel.                                     *)
(***************************************************************************)
Fields == {"count", "size", "radius", "branches", "spin", "randomness",
           "randomnessPower", "insideColor", "outsideColor"}

DefaultParameters ==
    [count |-> 100000, size |-> 1, radius |-> 10 * Scale, branches |-> 3,
     spin |-> 1 * Scale, randomness |-> 300, randomnessPower |-> 3 * Scale,
     insideColor |-> 16732980, outsideColor |-> 340828]

\* the panel's controllers: gui.add(parameters, f).min(..).max(..).step(..)
PanelBounds ==
    [count |-> [min |-> 100, max |-> 1000000, step |-> 100],
     size |-> [min |-> 1, max |-> 100, step |-> 1],
     radius |-> [min |-> 10, max |-> 20 * Scale, step |-> 10],
     branches |-> [min |-> 2, max |-> 20, step |-> 1],
     spin |-> [min |-> -5 * Scale, max |-> 5 * Scale, step |-> 1],
     randomness |-> [min |-> 0, max |-> 2 * Scale, step |-> 1],
     randomnessPower |-> [min |-> 1 * Scale, max |-> 10 * Scale, step |-> 1]]

NumberFields == DOMAIN PanelBounds
ColorFields == Fields \ NumberFields

\* variant: the controller writes the input as it is
ClampNothing(f, v) == v

\* a number controller's setValue: the value is brought inside [min, max],
\* then rounded to a whole number of steps
Clamp(f, v) ==
    LET b == PanelBounds[f]
        c == IF v < b.min THEN b.min ELSE IF v > b.max THEN b.max ELSE v
        q == (2 * c + b.step) \div (2 * b.step)
    IN q * b.step

\* values a user enters in a controller, inside and outside its range
PanelInputs(f) ==
    CASE f = "count" -> {0, 2000000}
      [] f = "size" -> {0, 101}
      [] f = "radius" -> {0, 21 * Scale}
      [] f = "branches" -> {0, 21}
      [] f = "spin" -> {-6 * Scale, 6 * Scale}
      [] f = "randomness" -> {-1, 3 * Scale}
      [] f = "randomnessPower" -> {0, 11 * Scale}
      [] f = "insideColor" -> {16777215}
      [] f = "outsideColor" -> {255}

(***************************************************************************)
(* The random source.  One call of generateGalaxy sees one sequence of     *)
(* Math.random() values; the n-th draw of the call is Draw(s, n).  Every   *)
(* value lies in [0, 1).                                                   *)
(***************************************************************************)
Streams ==
    << <<Scale \div 2>>, <<0, 250, 750, 999, 100>> >>

StreamIds == 1..Len(Streams)

Draw(s, n) == Streams[s][(n % Len(Streams[s])) + 1]

(***************************************************************************)
(* Float32Array.  data are the elements, zero after construction;          *)
(* unwritten are the indices no assignment has stored to yet.              *)
(***************************************************************************)
NoArray == [bound |-> FALSE, length |-> 0, data |-> <<>>, unwritten |-> {}]

\* the number of elements of an array of length n that are tracked
Tracked(n) == IF n > 3 * MaxParticles THEN 3 * MaxParticles ELSE n

Float32Array(n) ==
    [bound |-> TRUE, length |-> n, data |-> [j \in 1..Tracked(n) |-> 0],
     unwritten |-> 0..(Tracked(n) - 1)]

\* variant: every store lands one element too far
StoreShifted(arr, idx, v) ==
    IF idx + 1 >= 0 /\ idx + 1 < Len(arr.data)
    THEN [arr EXCEPT !.data[idx + 2] = v, !.unwritten = @ \ {idx + 1}]
    ELSE arr

\* arr[idx] = v, idx counted from 0; a store past the end is ignored
Store(arr, idx, v) ==
    IF idx >= 0 /\ idx < Len(arr.data)
    THEN [arr EXCEPT !.data[idx + 1] = v, !.unwritten = @ \ {idx}]
    ELSE arr

(***************************************************************************)
(* The body of the particle loop, lines 52-75.                             *)
(***************************************************************************)
\* a whole number of the source as a number of the model
Num(n) == n * Scale

\* variant: the radius also depends on how many calls came before
RadiusWithCarry(u, p) == FAdd(FMul(u, p.radius), calls)

\* const radius = Math.random() * parameters.radius
Radius(u, p) == FMul(u, p.radius)

\* const spinAngle = radius * parameters.spin
SpinAngle(radius, p) == FMul(radius, p.spin)

\* variant: the index is divided without being reduced modulo branches
BranchAngleNoModulo(i, p) ==
    FMul(FMul(FDiv(Num(i), Num(p.branches)), PI), Num(2))

\* const branchAngle = ((i % parameters.branches) / parameters.branches) * Math.PI * 2
BranchAngle(i, p) ==
    FMul(FMul(FDiv(FMod(Num(i), Num(p.branches)), Num(p.branches)), PI), Num(2))

\* variant: the draw is not centred on zero
JitterUncentred(u, radius, p) == FMul(FMul(u, p.randomness), radius)

\* (Math.random() - 0.5) * parameters.randomness * radius
Jitter(u, radius, p) == FMul(FMul(FSub(u, Scale \div 2), p.randomness), radius)

\* number of Math.random() calls of one iteration
DrawsPerParticle == 4

\* variant: the quotient is taken the wrong way round
MixFactorInverted(radius, p) == FDiv(p.radius, radius)

\* the factor of the colour mix: radius / parameters.radius
MixFactor(radius, p) == FDiv(radius, p.radius)

\* one iteration: st holds the two arrays and, for each particle already
\* generated, the values of the locals radius and branchAngle
LoopBody(st, i, p, s) ==
    LET i3 == i * 3
        n == i * DrawsPerParticle
        radius == Radius(Draw(s, n), p)
        spinAngle == SpinAngle(radius, p)
        branchAngle == BranchAngle(i, p)
        randomX == Jitter(Draw(s, n + 1), radius, p)
        randomY == Jitter(Draw(s, n + 2), radius, p)
        randomZ == Jitter(Draw(s, n + 3), radius, p)
        angle == FAdd(branchAngle, spinAngle)
        px == FAdd(FMul(Cos(angle), radius), randomX)
        py == randomY
        pz == FAdd(FMul(Sin(angle), radius), randomZ)
        mixedColor == lerp(Color(p.insideColor), Color(p.outsideColor),
                           MixFactor(radius, p))
    IN [positions |-> Store(Store(Store(st.positions, i3, px), i3 + 1, py), i3 + 2, pz),
        colors |-> Store(Store(Store(st.colors, i3, mixedColor.r), i3 + 1, mixedColor.g),
                         i3 + 2, mixedColor.b),
        draws |-> st.draws + DrawsPerParticle,
        radii |-> Append(st.radii, radius),
        angles |-> Append(st.angles, branchAngle)]

\* for (let i = 0; i < parameters.count; i++), over the tracked particles
RECURSIVE Iterate(_, _, _, _)
Iterate(st, i, p, s) ==
    IF i < p.count /\ i < MaxParticles
    THEN Iterate(LoopBody(st, i, p, s), i + 1, p, s)
    ELSE st

RunLoop(st, p, s) == Iterate(st, 0, p, s)

(***************************************************************************)
(* Groups of variables, initial state.                                     *)
(***************************************************************************)
handles == <<geometry, material, points>>
heap == <<geoms, mats, pts>>
locals == <<positions, colors, rng, draws, radii, angles>>
host == <<gui, rafPending, rendererDisposed, editing, edits, ticks>>
history == <<before, lastGen>>
vars == <<parameters, scene, children, handles, heap, pc, caller, locals,
          result, phase, host, calls, history>>

\* what a caller can observe of the scene: the handles, the scene graph and
\* which resources have been released
SceneState ==
    [points |-> points, geometry |-> geometry, material |-> material,
     children |-> children,
     disposedGeometries |-> {g \in DOMAIN geoms : geoms[g].disposed},
     disposedMaterials |-> {m \in DOMAIN mats : mats[m].disposed},
     created |-> <<Len(geoms), Len(mats), Len(pts)>>]

NoGen == [made |-> FALSE]

\* points.rotation.y += 0.001
RotationStep == 1

InitRest ==
    /\ scene = Null
    /\ children = {}
    /\ geometry = Null
    /\ material = Null
    /\ points = Null
    /\ geoms = <<>>
    /\ mats = <<>>
    /\ pts = <<>>
    /\ pc = "idle"
    /\ caller = "none"
    /\ positions = NoArray
    /\ colors = NoArray
    /\ rng = 0
    /\ draws = 0
    /\ radii = <<>>
    /\ angles = <<>>
    /\ result = "none"
    /\ phase = "created"
    /\ gui = FALSE
    /\ rafPending = FALSE
    /\ rendererDisposed = FALSE
    /\ editing = "none"
    /\ calls = 0
    /\ before = SceneState
    /\ lastGen = NoGen
    /\ edits = 0
    /\ ticks = 0

\* the component as the source constructs it
Init ==
    /\ parameters = DefaultParameters
    /\ InitRest

(***************************************************************************)
(* generateGalaxy, lines 32-92, statement by statement.                    *)
(***************************************************************************)
StartCall(c) ==
    /\ pc' = "entry"
    /\ caller' = c
    /\ calls' = calls + 1
    /\ result' = "running"
    /\ before' = SceneState
    /\ lastGen' = lastGen

ClearLocals ==
    /\ positions' = NoArray
    /\ colors' = NoArray
    /\ rng' = 0
    /\ draws' = 0
    /\ radii' = <<>>
    /\ angles' = <<>>

\* the call returns to its caller: onMounted goes on with its next statement
Return ==
    /\ result' = "returned"
    /\ pc' = IF caller = "mount" THEN "mount" ELSE "idle"
    /\ ClearLocals
    /\ UNCHANGED <<caller, phase>>

\* the call throws: the exception leaves generateGalaxy and its caller
Throw(e) ==
    /\ result' = e
    /\ pc' = "idle"
    /\ phase' = IF caller = "mount" THEN "failed" ELSE phase
    /\ ClearLocals
    /\ UNCHANGED caller

\* variant: the previous resources are not released
DisposeForgets(objs, h) == objs

\* geometry?.dispose() / material?.dispose()
Dispose(objs, h) == IF h = Null THEN objs ELSE [objs EXCEPT ![h].disposed = TRUE]

\* variant: the call goes on without a scene
gg_entryNoGuard ==
    /\ pc = "entry"
    /\ pc' = "dispose"
    /\ UNCHANGED <<parameters, scene, children, handles, heap, caller, locals,
                   result, phase, host, calls, history>>

\* line 33: if (!scene) return
gg_entry ==
    /\ pc = "entry"
    /\ IF scene = Null
       THEN Return
       ELSE /\ pc' = "dispose"
            /\ UNCHANGED <<caller, locals, result, phase>>
    /\ UNCHANGED <<parameters, scene, children, handles, heap, host, calls, history>>

\* variant: the previous renderable is kept while the new one is built
gg_disposeSkipped ==
    /\ pc = "dispose"
    /\ pc' = "newgeo"
    /\ UNCHANGED <<parameters, scene, children, handles, heap, caller, locals,
                   result, phase, host, calls, history>>

\* lines 36-40: the previous renderable is released and taken out of the scene
gg_dispose ==
    /\ pc = "dispose"
    /\ IF points # Null
       THEN /\ geoms' = Dispose(geoms, geometry)
            /\ mats' = Dispose(mats, material)
            /\ children' = children \ {points}
       ELSE UNCHANGED <<geoms, mats, children>>
    /\ pc' = "newgeo"
    /\ UNCHANGED <<parameters, scene, handles, pts, caller, locals, result,
                   phase, host, calls, history>>

NewGeometry == [disposed |-> FALSE, position |-> NoArray, color |-> NoArray]

\* line 43: geometry = new THREE.BufferGeometry()
gg_newgeo ==
    /\ pc = "newgeo"
    /\ geoms' = Append(geoms, NewGeometry)
    /\ geometry' = Len(geoms) + 1
    /\ pc' = "alloc"
    /\ UNCHANGED <<parameters, scene, children, material, points, mats, pts,
                   caller, locals, result, phase, host, calls, history>>

\* new Float32Array(n) throws a RangeError for a negative length
AllocThrows(n) == n < 0

\* lines 45-49: the two arrays
gg_alloc ==
    /\ pc = "alloc"
    /\ IF AllocThrows(parameters.count * 3)
       THEN Throw("RangeError")
       ELSE /\ positions' = Float32Array(parameters.count * 3)
            /\ colors' = Float32Array(parameters.count * 3)
            /\ pc' = "loop"
            /\ UNCHANGED <<rng, draws, radii, angles, caller, result, phase>>
    /\ UNCHANGED <<parameters, scene, children, handles, heap, host, calls, history>>

\* lines 52-75: the particle loop
gg_loop ==
    /\ pc = "loop"
    /\ \E s \in StreamIds :
          LET st == RunLoop([positions |-> positions, colors |-> colors,
                             draws |-> 0, radii |-> <<>>, angles |-> <<>>],
                            parameters, s)
          IN /\ rng' = s
             /\ positions' = st.positions
             /\ colors' = st.colors
             /\ draws' = st.draws
             /\ radii' = st.radii
             /\ angles' = st.angles
    /\ pc' = "setpos"
    /\ UNCHANGED <<parameters, scene, children, handles, heap, caller, result,
                   phase, host, calls, history>>

\* line 77: geometry.setAttribute("position", ...)
gg_setpos ==
    /\ pc = "setpos"
    /\ geoms' = [geoms EXCEPT ![geometry].position = positions]
    /\ pc' = "setcol"
    /\ UNCHANGED <<parameters, scene, children, handles, mats, pts, caller,
                   locals, result, phase, host, calls, history>>

\* variant: the colour array is never bound to the geometry
gg_setcolSkipped ==
    /\ pc = "setcol"
    /\ pc' = "material"
    /\ UNCHANGED <<parameters, scene, children, handles, heap, caller, locals,
                   result, phase, host, calls, history>>

\* line 78: geometry.setAttribute("color", ...)
gg_setcol ==
    /\ pc = "setcol"
    /\ geoms' = [geoms EXCEPT ![geometry].color = colors]
    /\ pc' = "material"
    /\ UNCHANGED <<parameters, scene, children, handles, mats, pts, caller,
                   locals, result, phase, host, calls, history>>

\* variant: the material is built with the size the component started with
NewMaterialDefaultSize(p) ==
    [disposed |-> FALSE, size |-> DefaultParameters.size, sizeAttenuation |-> TRUE,
     depthWrite |-> FALSE, blending |-> "AdditiveBlending", vertexColors |-> TRUE]

NewMaterial(p) ==
    [disposed |-> FALSE, size |-> p.size, sizeAttenuation |-> TRUE,
     depthWrite |-> FALSE, blending |-> "AdditiveBlending", vertexColors |-> TRUE]

\* lines 81-87: material = new THREE.PointsMaterial({...})
gg_material ==
    /\ pc = "material"
    /\ mats' = Append(mats, NewMaterial(parameters))
    /\ material' = Len(mats) + 1
    /\ pc' = "points"
    /\ UNCHANGED <<parameters, scene, children, geometry, points, geoms, pts,
                   caller, locals, result, phase, host, calls, history>>

\* variant: the rotation is carried over from the previous renderable
NewPointsInheritsRotation(g, m) ==
    [geometry |-> g, material |-> m,
     rotationY |-> IF points = Null THEN 0 ELSE pts[points].rotationY]

NewPoints(g, m) == [geometry |-> g, material |-> m, rotationY |-> 0]

\* Once the points handle is reassigned nothing refers to the previous Points
\* object or to its geometry any more: their contents are garbage.  The
\* records stay, with their disposed flags; the contents are dropped.
Unreachable(gs, ps, old) ==
    IF old = Null THEN <<gs, ps>>
    ELSE << [gs EXCEPT ![ps[old].geometry].position = NoArray,
                       ![ps[old].geometry].color = NoArray],
            [ps EXCEPT ![old].rotationY = 0] >>

\* line 90: points = new THREE.Points(geometry, material)
gg_points ==
    /\ pc = "points"
    /\ LET gc == Unreachable(geoms, pts, points)
       IN /\ geoms' = gc[1]
          /\ pts' = Append(gc[2], NewPoints(geometry, material))
    /\ points' = Len(pts) + 1
    /\ pc' = "add"
    /\ lastGen' = [made |-> TRUE, parameters |-> parameters, rng |-> rng,
                   positions |-> positions, colors |-> colors, ticks |-> ticks]
    /\ UNCHANGED <<parameters, scene, children, geometry, material, mats,
                   caller, locals, result, phase, host, calls, before>>

\* line 91: scene.add(points), and the return
gg_add ==
    /\ pc = "add"
    /\ children' = children \cup {points}
    /\ Return
    /\ UNCHANGED <<parameters, scene, handles, heap, host, calls, history>>

generateGalaxy ==
    \/ gg_entry
    \/ gg_dispose
    \/ gg_newgeo
    \/ gg_alloc
    \/ gg_loop
    \/ gg_setpos
    \/ gg_setcol
    \/ gg_material
    \/ gg_points
    \/ gg_add

(***************************************************************************)
(* The component: onMounted, animate, the panel, onUnmounted.  A handler   *)
(* runs to completion: no other handler starts while pc is not "idle".     *)
(***************************************************************************)
\* lines 94-128: the scene is created and generateGalaxy is called
Mount ==
    /\ phase = "created"
    /\ pc = "idle"
    /\ scene' = 1
    /\ phase' = "mounting"
    /\ StartCall("mount")
    /\ UNCHANGED <<parameters, children, handles, heap, locals, host>>

\* lines 121-123 of animate
Rotate(ps, h) ==
    IF h # Null THEN [ps EXCEPT ![h].rotationY = @ + RotationStep] ELSE ps

\* lines 130-186: the panel is built, animate() runs for the first time and
\* requests the next frame, onUnmounted is registered
MountRest ==
    /\ pc = "mount"
    /\ gui' = TRUE
    /\ rafPending' = TRUE
    /\ pts' = Rotate(pts, points)
    /\ phase' = "mounted"
    /\ pc' = "idle"
    /\ UNCHANGED <<parameters, scene, children, handles, geoms, mats, caller,
                   locals, result, rendererDisposed, editing, edits, ticks, calls, history>>

\* lines 119-126: one animation frame
animate ==
    /\ rafPending
    /\ pc = "idle"
    /\ ticks < MaxTicks
    /\ ticks' = ticks + 1
    /\ pts' = Rotate(pts, points)
    /\ UNCHANGED <<parameters, scene, children, handles, geoms, mats, pc, caller,
                   locals, result, phase, gui, rafPending, rendererDisposed,
                   editing, edits, calls, history>>

\* the value a controller writes into the parameter object
PanelValue(f, v) == IF f \in ColorFields THEN v ELSE Clamp(f, v)

\* variant: the controller regenerates on every change (onChange)
ChangeRegenerates(f, v) ==
    /\ gui
    /\ pc = "idle"
    /\ edits < MaxEdits
    /\ calls < MaxCalls
    /\ editing \in {"none", f}
    /\ parameters' = [parameters EXCEPT ![f] = PanelValue(f, v)]
    /\ editing' = f
    /\ edits' = edits + 1
    /\ StartCall("gui")
    /\ UNCHANGED <<scene, children, handles, heap, locals, phase, gui,
                   rafPending, rendererDisposed, ticks>>

\* a change inside an edit session: the parameter object is mutated in place
Change(f, v) ==
    /\ gui
    /\ pc = "idle"
    /\ edits < MaxEdits
    /\ editing \in {"none", f}
    /\ parameters' = [parameters EXCEPT ![f] = PanelValue(f, v)]
    /\ editing' = f
    /\ edits' = edits + 1
    /\ UNCHANGED <<scene, children, handles, heap, pc, caller, locals, result,
                   phase, gui, rafPending, rendererDisposed, ticks, calls, history>>

\* the edit session ends: onFinishChange(generateGalaxy)
FinishChange ==
    /\ gui
    /\ pc = "idle"
    /\ editing # "none"
    /\ calls < MaxCalls
    /\ editing' = "none"
    /\ StartCall("gui")
    /\ UNCHANGED <<parameters, scene, children, handles, heap, locals, phase,
                   gui, rafPending, rendererDisposed, edits, ticks>>

\* lines 188-193: onUnmounted
Unmount ==
    /\ phase = "mounted"
    /\ pc = "idle"
    /\ phase' = "unmounted"
    /\ gui' = FALSE
    /\ editing' = "none"
    /\ rendererDisposed' = TRUE
    /\ UNCHANGED <<parameters, scene, children, handles, heap, pc, caller,
                   locals, result, rafPending, edits, ticks, calls, history>>

Next ==
    \/ Mount
    \/ generateGalaxy
    \/ MountRest
    \/ animate
    \/ \E f \in Fields : \E v \in PanelInputs(f) : Change(f, v)
    \/ FinishChange
    \/ Unmount

Spec == Init /\ [][Next]_vars

(***************************************************************************)
(* generateGalaxy called directly: a caller writes any parameter object,   *)
(* valid or not, and calls; before or after the mount.                     *)
(***************************************************************************)
DriverShapes ==
    {[spin |-> 0, randomness |-> 0], [spin |-> 0, randomness |-> 300],
     [spin |-> 1 * Scale, randomness |-> 300]}

\* parameter objects that meet the preconditions of the generation
ValidDriverParameters ==
    {[DefaultParameters EXCEPT !.count = c, !.branches = b,
                               !.spin = sh.spin, !.randomness = sh.randomness] :
        c \in 1..MaxParticles, b \in 1..MaxDriverBranches, sh \in DriverShapes}

\* parameter objects with one field that breaks them
InvalidDriverParameters ==
    LET base == [DefaultParameters EXCEPT !.count = 2, !.branches = 2]
    IN {[base EXCEPT !.count = c] : c \in {-1, 0}}
       \cup {[base EXCEPT !.branches = b] : b \in {-1, 0}}
       \cup {[base EXCEPT !.radius = r] : r \in {-10 * Scale, 0}}

DriverParameters == ValidDriverParameters \cup InvalidDriverParameters

InitDriver ==
    /\ parameters \in DriverParameters
    /\ InitRest

DriverCall(p) ==
    /\ pc = "idle"
    /\ calls < MaxDriverCalls
    /\ parameters' = p
    /\ StartCall("driver")
    /\ UNCHANGED <<scene, children, handles, heap, locals, phase, host>>

NextDriver ==
    \/ Mount
    \/ generateGalaxy
    \/ MountRest
    \/ \E p \in DriverParameters : DriverCall(p)

SpecDriver == InitDriver /\ [][NextDriver]_vars

(***************************************************************************)
(* Properties.                                                             *)
(***************************************************************************)
\* the preconditions of the generation
Valid(p) == p.count > 0 /\ p.branches >= 1 /\ p.radius > 0

\* no call is running: the state between two operations
Quiet == pc \in {"idle", "mount"}

\* the loop has finished and the arrays are not bound to the geometry yet
Generated == pc = "setpos"

Particles == 1..Len(radii)

Abs(x) == IF x < 0 THEN -x ELSE x

\* the three elements of particle i (counted from 1) in an array
Triple(arr, i) == <<arr.data[3 * i - 2], arr.data[3 * i - 1], arr.data[3 * i]>>

UndisposedGeometries == {g \in DOMAIN geoms : ~geoms[g].disposed}
UndisposedMaterials == {m \in DOMAIN mats : ~mats[m].disposed}

\* C1: after one or more completed generateGalaxy calls on a mounted scene the
\* scene graph holds exactly one renderable, it is the one the points handle
\* records, and no geometry or material other than the pair of that renderable
\* is undisposed.
C1_OneActiveRenderable ==
    (Quiet /\ scene # Null /\ calls >= 1 /\ result = "returned")
        => /\ points # Null
           /\ children = {points}
           /\ UndisposedGeometries \subseteq {pts[points].geometry}
           /\ UndisposedMaterials \subseteq {pts[points].material}

C1_Witness ==
    /\ pc = "idle" /\ result = "returned" /\ calls >= 2
    /\ Len(pts) >= 2 /\ children = {points}
    /\ geoms[pts[1].geometry].disposed /\ mats[pts[1].material].disposed

\* C2: a call with count <= 0, branches <= 0 or radius <= 0 on a mounted scene
\* never reaches the statement that publishes a renderable and never returns
\* normally.
C2_InvalidParametersRejected ==
    (scene # Null /\ calls >= 1 /\ ~Valid(parameters))
        => pc # "add" /\ result # "returned"

\* C3: a call with count <= 0 or branches <= 0 made while a renderable is
\* active leaves the scene state as it was when the call started.
C3_InvalidCallLeavesSceneUntouched ==
    (pc = "idle" /\ calls >= 1 /\ result # "running" /\ before.points # Null
       /\ (parameters.count <= 0 \/ parameters.branches <= 0))
        => SceneState = before

\* C4: for valid parameters both arrays have length count * 3 and the loop
\* has stored to every element before the arrays are bound to the geometry.
C4_ArraysFullyPopulated ==
    (Generated /\ Valid(parameters))
        => /\ positions.length = parameters.count * 3
           /\ colors.length = parameters.count * 3
           /\ Len(positions.data) = Tracked(parameters.count * 3)
           /\ Len(colors.data) = Tracked(parameters.count * 3)
           /\ positions.unwritten = {}
           /\ colors.unwritten = {}
           /\ ~geoms[geometry].position.bound
           /\ ~geoms[geometry].color.bound

C4_Witness ==
    /\ Generated /\ Valid(parameters) /\ parameters.count = MaxParticles
    /\ Len(positions.data) = 3 * MaxParticles /\ positions.unwritten = {}

\* The quotient (i mod branches) / branches is truncated to one unit before
\* it is multiplied by 2 pi: the angle is within 2 pi units, rounded up, plus
\* one unit for each of the two products, of the exact value.
AngleError == (TwoPI \div Scale) + 3

\* C5: the branch angle of particle i is ((i mod branches) / branches) * 2 pi,
\* a function of the index and the parameters alone; two particles have the
\* same branch angle exactly when their indices are congruent modulo
\* branches, and the numbers of particles of any two branches differ by at
\* most one.
C5_RoundRobinBranches ==
    (Generated /\ Valid(parameters))
        => LET b == parameters.branches
               OnBranch(k) == {i \in Particles : angles[i] = BranchAngle(k, parameters)}
           IN /\ Len(angles) = Len(radii)
              /\ \A i \in Particles :
                    /\ angles[i] = BranchAngle(i - 1, parameters)
                    /\ Abs(angles[i] - ((((i - 1) % b) * TwoPI) \div b)) <= AngleError
              /\ \A i, j \in Particles :
                    (angles[i] = angles[j]) <=> ((i - 1) % b = (j - 1) % b)
              /\ \A k1, k2 \in 0..(b - 1) :
                    Abs(Cardinality(OnBranch(k1)) - Cardinality(OnBranch(k2))) <= 1

C5_Witness ==
    /\ Generated /\ Valid(parameters)
    /\ parameters.branches = 2 /\ parameters.count >= 4
    /\ angles[1] = angles[3] /\ angles[2] = angles[4] /\ angles[1] # angles[2]

\* C6: every particle consumes seven draws of the random source (one for the
\* radius, two for each axis), and the jitter of an axis depends on
\* randomnessPower.
C6_SevenDrawsAndPower ==
    (Generated /\ Valid(parameters))
        => /\ draws = 7 * parameters.count
           /\ \E u \in 0..(Scale - 1) :
                 Jitter(u, parameters.radius, parameters)
                    # Jitter(u, parameters.radius,
                             [parameters EXCEPT !.randomnessPower = 1 * Scale])

C8_ColorInterpolation ==
    (Generated /\ Valid(parameters))
        => LET inside == Color(parameters.insideColor)
               outside == Color(parameters.outsideColor)
               Mix(a, b, t) == a + TDiv((b - a) * t, Scale)
           IN \A i \in Particles :
                 LET t == TDiv(radii[i] * Scale, parameters.radius)
                 IN /\ 0 <= t /\ t <= Scale
                    /\ Triple(colors, i) = <<Mix(inside.r, outside.r, t),
                                             Mix(inside.g, outside.g, t),
                                             Mix(inside.b, outside.b, t)>>
                    /\ radii[i] = 0 =>
                          Triple(colors, i) = <<inside.r, inside.g, inside.b>>
                    /\ radii[i] = parameters.radius =>
                          Triple(colors, i) = <<outside.r, outside.g, outside.b>>

C8_Witness ==
    /\ Generated /\ Valid(parameters) /\ Len(radii) >= 2
    /\ radii[1] = 0
    /\ Triple(colors, 1) = <<Scale, (83 * Scale) \div 255, (52 * Scale) \div 255>>
    /\ radii[2] > 0 /\ Triple(colors, 2) # Triple(colors, 1)

\* C9: with spin = 0 and no jitter (randomness = 0, or every draw 0.5) every
\* particle lies on its branch ray in the XZ plane; for count 4, branches 2,
\* radius 10 and every draw 0.5 the particles are at (5, 0, 0) and (-5, 0, 0)
\* alternately.
C9_OnBranchRay ==
    (Generated /\ Valid(parameters) /\ parameters.spin = 0
       /\ (parameters.randomness = 0 \/ rng = 1))
        => /\ \A i \in Particles :
                 Triple(positions, i) =
                    <<TDiv(Cos(angles[i]) * radii[i], Scale), 0,
                      TDiv(Sin(angles[i]) * radii[i], Scale)>>
           /\ (parameters.count = 4 /\ parameters.branches = 2
                 /\ parameters.radius = 10 * Scale /\ rng = 1)
                => positions.data = <<5 * Scale, 0, 0, -5 * Scale, 0, 0,
                                      5 * Scale, 0, 0, -5 * Scale, 0, 0>>

C9_Witness ==
    /\ Generated /\ parameters.spin = 0 /\ parameters.randomness > 0 /\ rng = 1
    /\ parameters.count = 4 /\ parameters.branches = 2
    /\ parameters.radius = 10 * Scale
    /\ Triple(positions, 2) = <<-5 * Scale, 0, 0>>

\* C10: after the teardown no undisposed geometry or material remains.
C10_ReleasedAtTeardown ==
    phase = "unmounted" => UndisposedGeometries = {} /\ UndisposedMaterials = {}

\* C11: commit on finish, for each of the nine fields.  A change inside an
\* edit session writes the parameter object and starts no call; the end of a
\* session starts exactly one call and writes nothing; and the panel starts a
\* call in no other way (the only other call is the one of onMounted).
C11_CommitOnFinish ==
    [][ /\ (edits' # edits \/ parameters' # parameters)
            => /\ calls' = calls /\ pc' = "idle" /\ result' = result
               /\ editing' \in Fields
               /\ \A g \in Fields \ {editing'} : parameters'[g] = parameters[g]
        /\ (gui' /\ editing # "none" /\ editing' = "none")
            => /\ calls' = calls + 1 /\ pc' = "entry" /\ caller' = "gui"
               /\ parameters' = parameters
        /\ (calls' # calls)
            => /\ calls' = calls + 1
               /\ \/ phase = "created"
                  \/ gui /\ editing # "none" /\ editing' = "none"
      ]_vars

C11_Witness ==
    /\ pc = "idle" /\ caller = "gui" /\ result = "returned"
    /\ edits >= 1 /\ editing = "none" /\ calls = 2
    /\ parameters.outsideColor # DefaultParameters.outsideColor

\* the declared range of every number field of the panel
InPanelBounds(p) ==
    \A f \in NumberFields : PanelBounds[f].min <= p[f] /\ p[f] <= PanelBounds[f].max

\* C12: from the default parameters and any panel edits, every generateGalaxy
\* call sees each number field inside the declared range of its controller;
\* so no call reachable through the panel sees count <= 0, branches <= 0 or
\* radius <= 0.
C12_ParametersInPanelBounds ==
    (result = "running")
        => /\ InPanelBounds(parameters)
           /\ parameters.count > 0 /\ parameters.branches > 0
           /\ parameters.radius > 0

C12_Witness ==
    /\ result = "running" /\ caller = "gui" /\ pc = "alloc" /\ edits >= 1
    /\ parameters.radius = PanelBounds.radius.min

\* C13: inside a call the previous geometry and material are disposed and the
\* previous renderable is out of the scene graph before the new geometry, the
\* arrays or the new material exist; so at every point of every execution at
\* most one geometry and at most one material are undisposed.
C13_ReleaseBeforeCreate ==
    /\ Cardinality(UndisposedGeometries) <= 1
    /\ Cardinality(UndisposedMaterials) <= 1
    /\ pc = "newgeo"
          => UndisposedGeometries = {} /\ UndisposedMaterials = {} /\ children = {}
    /\ pc \in {"alloc", "loop", "setpos", "setcol", "material"}
          => /\ UndisposedGeometries = {geometry} /\ UndisposedMaterials = {}
             /\ children = {}
    /\ pc \in {"points", "add"}
          => UndisposedGeometries = {geometry} /\ UndisposedMaterials = {material}

C13_Witness ==
    /\ pc = "loop" /\ calls >= 2 /\ points # Null
    /\ geoms[pts[points].geometry].disposed /\ mats[pts[points].material].disposed
    /\ children = {} /\ UndisposedGeometries = {geometry}
    /\ positions.bound /\ geometry # pts[points].geometry

\* a frame may run: the first one inside onMounted, the later ones whenever a
\* frame is requested and no handler is running
FrameMayRun == pc = "mount" \/ (rafPending /\ pc = "idle")

\* renderable h has both attributes, bound to fully written arrays of one
\* length, and its geometry and material are undisposed
Complete(h) ==
    LET g == geoms[pts[h].geometry]
        m == mats[pts[h].material]
    IN /\ g.position.bound /\ g.color.bound
       /\ g.position.length = g.color.length
       /\ Len(g.position.data) = Tracked(g.position.length)
       /\ Len(g.color.data) = Tracked(g.color.length)
       /\ g.position.unwritten = {} /\ g.color.unwritten = {}
       /\ ~g.disposed /\ ~m.disposed

\* C14: whenever a frame may run, every renderable it can find, in the scene
\* graph or through the points handle, is complete: a frame never sees one
\* attribute without the other, a partly written array, or a disposed
\* geometry or material.
C14_FramesSeeCompleteRenderables ==
    FrameMayRun => \A h \in children \cup ({points} \ {Null}) : Complete(h)

C14_Witness ==
    /\ FrameMayRun /\ caller = "gui" /\ calls >= 2 /\ ticks >= 1
    /\ points # Null /\ pts[points].rotationY >= RotationStep
    /\ Complete(points) /\ Len(pts) >= 2

\* the last edit session of the panel has ended and its call is over
Committed == gui /\ pc = "idle" /\ caller = "gui" /\ editing = "none"

\* C15: after every committed panel edit the active renderable is built from
\* the current parameter object: both arrays have length count * 3 and hold
\* the generation of the current parameters, the material has the current
\* size and the fixed style (additive blending, no depth write, vertex
\* colours).
C15_CommittedEditShown ==
    Committed
        => /\ result = "returned" /\ points # Null /\ children = {points}
           /\ LET g == geoms[pts[points].geometry]
                  m == mats[pts[points].material]
              IN /\ g.position.bound /\ g.color.bound
                 /\ g.position.length = parameters.count * 3
                 /\ g.color.length = parameters.count * 3
                 /\ lastGen.made /\ lastGen.parameters = parameters
                 /\ g.position = lastGen.positions /\ g.color = lastGen.colors
                 /\ m.size = parameters.size
                 /\ m.blending = "AdditiveBlending"
                 /\ ~m.depthWrite /\ m.vertexColors

C15_Witness ==
    /\ Committed /\ edits >= 1 /\ Len(pts) >= 2
    /\ parameters.count = PanelBounds.count.min
    /\ geoms[pts[points].geometry].position.length = 3 * PanelBounds.count.min
    /\ geoms[pts[1].geometry].disposed

\* C16: between operations, after any sequence of calls, returned or thrown,
\* the handles agree with the scene graph: points is non-null exactly when the
\* scene graph holds a renderable, that renderable is points, and the geometry
\* and material handles are the undisposed geometry and material points was
\* constructed with.
C16_HandlesConsistent ==
    (pc = "idle" /\ result # "running")
        => /\ (points # Null) <=> (children # {})
           /\ children \subseteq {points}
           /\ points # Null
                 => /\ geometry = pts[points].geometry
                    /\ material = pts[points].material
                    /\ ~geoms[geometry].disposed
                    /\ ~mats[material].disposed

\* C17: a call made while the scene handle is null does nothing: it goes from
\* its entry straight to its return, creates no geometry, material or
\* renderable, disposes nothing and leaves the three handles and the scene
\* state as they were when it started.
C17_NoSceneNoOp ==
    (scene = Null /\ calls >= 1)
        => /\ pc \in {"entry", "idle"}
           /\ pc = "idle" => result = "returned"
           /\ SceneState = before
           /\ geoms = <<>> /\ mats = <<>> /\ pts = <<>>
           /\ geometry = Null /\ material = Null /\ points = Null
           /\ positions = NoArray /\ colors = NoArray

C17_Witness ==
    /\ scene = Null /\ calls >= 2 /\ pc = "idle" /\ result = "returned"
    /\ caller = "driver" /\ parameters.count = -1 /\ phase = "created"

\* the frames that have run since the active renderable was constructed: the
\* animation frames counted since then, and for the renderable of onMounted
\* the frame that onMounted itself runs
FramesOfActive ==
    (ticks - lastGen.ticks)
        + (IF points = 1 /\ phase \in {"mounted", "unmounted"} THEN 1 ELSE 0)

\* a step that runs one frame
FrameStep == ticks' = ticks + 1 \/ (pc = "mount" /\ pc' = "idle")

\* C18: a frame adds the fixed increment to the Y rotation of the active
\* renderable and changes no other renderable; a new renderable starts at
\* rotation 0 whatever the rotation of the previous one; so the rotation of
\* the active renderable is the increment times the number of frames since it
\* was constructed.
C18_RotationOfActive ==
    /\ [](points # Null => pts[points].rotationY = FramesOfActive * RotationStep)
    /\ [][ /\ (FrameStep /\ points # Null)
                => /\ points' = points
                   /\ pts'[points].rotationY = pts[points].rotationY + RotationStep
                   /\ \A h \in DOMAIN pts \ {points} : pts'[h] = pts[h]
           /\ (points' # points)
                => /\ pts'[points'].rotationY = 0
                   /\ points' \notin DOMAIN pts
         ]_vars

C18_Witness ==
    /\ pc = "idle" /\ caller = "gui" /\ result = "returned" /\ points = 2
    /\ ticks >= 1 /\ lastGen.ticks = 0
    /\ pts[points].rotationY = RotationStep

\* C19: after the teardown no frame is requested any more (so none runs and
\* none draws with the disposed renderer) and the panel is gone (so no call
\* can be triggered).
C19_FramesStopAtTeardown ==
    phase = "unmounted" => ~rafPending /\ ~gui

====
